---- MODULE Spec2Model ----
(***************************************************************************)
(* Model of the run tracker of src/src/components/Map.tsx: the tracking    *)
(* state machine, the GPS sample filter, the path and its distance, the    *)
(* pause ledger, territory capture, the run archive and the simulated run. *)
(*                                                                         *)
(* A React event handler or callback runs to completion, then the          *)
(* component re-renders and its effects run before the next event; one     *)
(* action is one handler together with the effects its state updates       *)
(* trigger.  A handler reads state through the closure of the render that  *)
(* created it: a button handler reads the current state, the simulation    *)
(* interval callback reads the state of the render in which the simulation *)
(* was started (simClosure).                                               *)
(*                                                                         *)
(* Positions are <<lat, lng>> in whole metres north and east of a          *)
(* reference point; distances are in metres (the code's kilometres times   *)
(* 1000); times are in milliseconds.                                       *)
(***************************************************************************)
EXTENDS Integers, Sequences, FiniteSets, TLC

\* null of a number-valued state or ref (number | null)
Null == -1

\* enum TrackingState
STOPPED == "stopped"
RUNNING == "running"
PAUSED == "paused"

\* GPS filtering constants
MIN_ACCURACY == 50
MAX_SPEED == 25
MIN_DISTANCE == 2
\* closed-loop threshold of checkForTerritoryCapture, metres
CLOSURE_THRESHOLD == 150
\* number of points of MOCK_RUN_PATH
MOCK_RUN_LENGTH == 9

\* ---------------------------------------------------------------- bounds
\* Date.now() when the component is mounted
Epoch == 1000
\* last value of the clock
MaxTime == 2000
\* watchPosition subscriptions the position source hands out
MaxWatches == 2
\* points a live sample may be appended to
MaxPathLen == 2
\* runs in the archive beyond which no new session is started
MaxRuns == 1
\* pauses of one session
MaxPauses == 1

\* clock advances between two events, milliseconds
TimeSteps == {1000}
\* positions the position source reports: along the line lat = 0
Points == {<<0, 0>>, <<0, 2>>, <<0, 27>>}
\* accuracies the position source reports, metres
Accuracies == {50, 51}

\* the same for the specifications that add the simulated run or the
\* unguarded handlers
FullMaxPathLen == 1
FullPoints == {<<0, 0>>}
FullAccuracies == {50, 51}

\* the same for the specification that follows the pause ledger: pauses of
\* 1000 to 3000 ms in steps of 500 ms, up to two pauses in a session
LedgerMaxTime == 4000
LedgerTimeSteps == {1000, 1500}
LedgerMaxWatches == 3
LedgerMaxPauses == 2

\* the same for the specification that follows territory capture: end
\* points 149 m and 150 m from the point <<0, 2>>
TerritoryMaxPathLen == 3
TerritoryPoints == {<<0, 0>>, <<0, 2>>, <<0, 151>>, <<0, 152>>}

\* the same for the specification that follows the path: three collinear
\* points with segments of 2, 3 and 5 metres, every sample accurate
PathMaxLen == 3
PathPoints == {<<0, 0>>, <<0, 2>>, <<0, 5>>}
PathAccuracies == {50}
\* with a loaded archive: no session starts once the archive holds this many runs
LoadMaxRuns == 2

\* the same for the specification that follows the archive over two runs
ArchiveMaxRuns == 2

\* ------------------------------------------------------------- geometry
Abs(x) == IF x < 0 THEN -x ELSE x

RECURSIVE SqrtBetween(_, _, _)
\* the largest r in lo..hi with r*r <= n
SqrtBetween(n, lo, hi) ==
    IF lo >= hi THEN lo
    ELSE LET mid == (lo + hi + 1) \div 2
         IN IF mid * mid <= n THEN SqrtBetween(n, mid, hi)
                              ELSE SqrtBetween(n, lo, mid - 1)

ISqrt(n) == SqrtBetween(n, 0, 46340)

\* turf.distance(turf.point([a.lng, a.lat]), turf.point([b.lng, b.lat]), 'meters'),
\* in whole metres
TurfDistance(a, b) ==
    ISqrt((a[1] - b[1]) * (a[1] - b[1]) + (a[2] - b[2]) * (a[2] - b[2]))

\* turf.bearing(from, to): degrees in -180..180, 0 = north, to the nearest
\* of the eight compass directions
TurfBearing(a, b) ==
    LET dn == b[1] - a[1]
        de == b[2] - a[2]
    IN IF de = 0 THEN (IF dn >= 0 THEN 0 ELSE 180)
       ELSE IF de > 0 THEN (IF dn > 0 THEN 45 ELSE IF dn = 0 THEN 90 ELSE 135)
       ELSE (IF dn > 0 THEN -45 ELSE IF dn = 0 THEN -90 ELSE -135)

RECURSIVE TurfLength(_)
\* length(turf.lineString(path)), in metres
TurfLength(p) ==
    IF Len(p) < 2 THEN 0
    ELSE TurfDistance(p[1], p[2]) + TurfLength(Tail(p))

\* MOCK_RUN_PATH: 0.005 degrees of latitude are 556 m, 0.01 degrees of
\* longitude are 692 m, measured from [51.495, -0.10]
MOCK_RUN_PATH ==
    << <<1668, 0>>, <<2224, 692>>, <<2780, 1384>>, <<2224, 2076>>,
       <<1668, 2768>>, <<1112, 2076>>, <<556, 1384>>, <<0, 692>>,
       <<1668, 0>> >>

\* JavaScript truthiness of a number | null
Truthy(x) == x # Null /\ x # 0

VARIABLES
    \* React state of Map
    trackingState, isSimulating, path, currentPosition, currentHeading,
    capturedAreas, distance, startTime, pauseStartTime, totalPauseTime,
    pauseCount, currentRunTime, savedRuns,
    \* refs
    watchId, simulationIntervalId, lastGPSPoint,
    \* environment
    now,              \* Date.now()
    hasGeolocation,   \* navigator.geolocation is present
    watchKind,        \* the subscriptions handed out so far: which callbacks each got
    openWatches,      \* subscriptions the position source still serves
    staleWatches,     \* cleared subscriptions with a callback already queued
    pendingInitial,   \* a getCurrentPosition request is outstanding
    storage,          \* localStorage['runTracker_savedRuns']
    simTimerActive,   \* the simulation interval is scheduled
    simStep,          \* `step` of the simulation interval callback
    simClosure,       \* state captured by the simulation interval callback
    \* the operation of the last step and its input
    last

stateVars == <<trackingState, isSimulating, path, currentPosition, currentHeading,
               capturedAreas, distance, startTime, pauseStartTime, totalPauseTime,
               pauseCount, currentRunTime, savedRuns>>
refVars == <<watchId, simulationIntervalId, lastGPSPoint>>
watchVars == <<watchKind, openWatches, staleWatches>>
simVars == <<simTimerActive, simStep, simClosure>>
vars == <<stateVars, refVars, watchVars, simVars, now, hasGeolocation,
          pendingInitial, storage, last>>

\* no simulation interval callback exists
NoClosure == [startTime |-> Null, distance |-> 0, capturedAreas |-> <<>>,
              savedRuns |-> <<>>]

\* lastGPSPoint.current === null
NoGPSPoint == [lat |-> 0, lng |-> 0, timestamp |-> Null, accuracy |-> Null]

\* currentPosition === null
NoPosition == <<>>

NoSample == [point |-> NoPosition, accuracy |-> Null]

\* the record of a step: the operation, the tracking state it found, the
\* subscription it came from (0: none), whether that subscription had been
\* cleared, the sample delivered, and the history of the session's pauses:
\* the pause operations since the last start and the milliseconds of the
\* pause intervals that a resume has closed since the last start
Op(name, w, stale, sample) ==
    [op |-> name, from |-> trackingState, w |-> w, stale |-> stale, sample |-> sample,
     pauses |-> IF name \in {"init", "start"} THEN 0
                ELSE IF name = "pause" THEN last.pauses + 1
                ELSE last.pauses,
     pausedMs |-> IF name \in {"init", "start"} THEN 0
                  ELSE IF name = "resume" /\ Truthy(pauseStartTime)
                       THEN last.pausedMs + (now - pauseStartTime)
                  ELSE last.pausedMs]

Did(name) == Op(name, 0, FALSE, NoSample)

Init ==
    /\ trackingState = STOPPED
    /\ isSimulating = FALSE
    /\ path = <<>>
    /\ currentPosition = NoPosition
    /\ currentHeading = 0
    /\ capturedAreas = <<>>
    /\ distance = 0
    /\ startTime = Null
    /\ pauseStartTime = Null
    /\ totalPauseTime = 0
    /\ pauseCount = 0
    /\ currentRunTime = 0
    /\ savedRuns = <<>>
    /\ watchId = Null
    /\ simulationIntervalId = Null
    /\ lastGPSPoint = NoGPSPoint
    /\ now = Epoch
    /\ hasGeolocation \in BOOLEAN
    /\ watchKind = <<>>
    /\ openWatches = {}
    /\ staleWatches = {}
    /\ pendingInitial = FALSE
    /\ storage = <<>>
    /\ simTimerActive = FALSE
    /\ simStep = 0
    /\ simClosure = NoClosure
    /\ last = Did("init")

\* What localStorage holds under 'runTracker_savedRuns' when the component
\* mounts. <<>>: the key is absent. Unparseable: a text JSON.parse rejects.
\* Otherwise the runs an earlier visit saved.
StoredRun(t) ==
    [id |-> <<"run", t>>,
     date |-> t,
     path |-> <<<<0, 0>>>>,
     distance |-> 0,
     duration |-> 0,
     totalTime |-> 0,
     pauseCount |-> 0,
     pauseDuration |-> 0,
     capturedAreas |-> <<>>]

Unparseable == <<[StoredRun(0) EXCEPT !.id = <<"unparseable", 0>>]>>

StoredAtMount == {<<>>, Unparseable, <<StoredRun(500)>>, <<StoredRun(500), StoredRun(600)>>}

\* The component after its first render, before the effects of the mount run
InitMount ==
    /\ trackingState = STOPPED
    /\ isSimulating = FALSE
    /\ path = <<>>
    /\ currentPosition = NoPosition
    /\ currentHeading = 0
    /\ capturedAreas = <<>>
    /\ distance = 0
    /\ startTime = Null
    /\ pauseStartTime = Null
    /\ totalPauseTime = 0
    /\ pauseCount = 0
    /\ currentRunTime = 0
    /\ savedRuns = <<>>
    /\ watchId = Null
    /\ simulationIntervalId = Null
    /\ lastGPSPoint = NoGPSPoint
    /\ now = Epoch
    /\ hasGeolocation \in BOOLEAN
    /\ watchKind = <<>>
    /\ openWatches = {}
    /\ staleWatches = {}
    /\ pendingInitial = FALSE
    /\ storage \in StoredAtMount
    /\ simTimerActive = FALSE
    /\ simStep = 0
    /\ simClosure = NoClosure
    /\ last = [Did("init") EXCEPT !.op = "mount"]

\* ------------------------------------------------------------- helpers

\* DistanceEffect taking a path of two points for a path without a segment
DistanceEffectSkipsShort(p) == IF Len(p) > 2 THEN TurfLength(p) ELSE 0

\* the effect on [path]: the distance of the rendered path
DistanceEffect(p) == IF Len(p) > 1 THEN TurfLength(p) ELSE 0

\* navigator.geolocation.watchPosition(success, error, options): the handle
WatchPosition(kind) ==
    /\ watchId' = Len(watchKind) + 1
    /\ watchKind' = Append(watchKind, kind)
    /\ openWatches' = openWatches \cup {Len(watchKind) + 1}
    /\ UNCHANGED staleWatches

\* if (watchId.current) { navigator.geolocation.clearWatch(watchId.current); watchId.current = null }
ClearWatchIfSet ==
    IF Truthy(watchId)
    THEN /\ openWatches' = openWatches \ {watchId}
         /\ staleWatches' = staleWatches \cup ({watchId} \cap openWatches)
         /\ watchId' = Null
         /\ UNCHANGED watchKind
    ELSE UNCHANGED <<watchId, watchVars>>

\* CheckForTerritoryCapture closing a path of two points
CheckForTerritoryCaptureTwoPoints(pathToCheck, prevAreas) ==
    IF /\ Len(pathToCheck) > 1
       /\ TurfDistance(pathToCheck[1], pathToCheck[Len(pathToCheck)]) < CLOSURE_THRESHOLD
    THEN Append(prevAreas, Append(pathToCheck, pathToCheck[1]))
    ELSE prevAreas

\* CheckForTerritoryCapture closing a loop whose ends are exactly the
\* threshold apart
CheckForTerritoryCaptureInclusive(pathToCheck, prevAreas) ==
    IF /\ Len(pathToCheck) > 2
       /\ TurfDistance(pathToCheck[1], pathToCheck[Len(pathToCheck)]) <= CLOSURE_THRESHOLD
    THEN Append(prevAreas, Append(pathToCheck, pathToCheck[1]))
    ELSE prevAreas

\* checkForTerritoryCapture(pathToCheck): the captured areas after it
CheckForTerritoryCapture(pathToCheck, prevAreas) ==
    IF /\ Len(pathToCheck) > 2
       /\ TurfDistance(pathToCheck[1], pathToCheck[Len(pathToCheck)]) < CLOSURE_THRESHOLD
    THEN Append(prevAreas, Append(pathToCheck, pathToCheck[1]))
    ELSE prevAreas

\* saveRunToLocalStorage(run) of a render whose savedRuns is `runs`;
\* ok: localStorage.setItem did not throw
SaveRunToLocalStorage(run, runs, ok) ==
    IF ok
    THEN /\ storage' = Append(runs, run)
         /\ savedRuns' = Append(runs, run)
    ELSE UNCHANGED <<storage, savedRuns>>

\* loadSavedRuns keeping what it read when the read or the parse fails
LoadSavedRunsNoCatch(stored, throws) == stored

\* loadSavedRuns: the savedRuns after the mount effect. throws:
\* localStorage.getItem throws; `if (saved)` skips an absent key; JSON.parse
\* throws on a text that is not JSON; the catch only logs.
LoadSavedRuns(stored, throws) ==
    IF throws THEN savedRuns
    ELSE IF stored = <<>> THEN savedRuns
    ELSE IF stored = Unparseable THEN savedRuns
    ELSE stored

\* ------------------------------------------------------ event handlers

\* handleStartTracking keeping the last accepted sample of the session before
handleStartTrackingKeepsBaseline ==
    /\ path' = <<>>
    /\ capturedAreas' = <<>>
    /\ distance' = DistanceEffect(<<>>)
    /\ startTime' = now
    /\ pauseStartTime' = Null
    /\ totalPauseTime' = 0
    /\ pauseCount' = 0
    /\ currentRunTime' = 0
    /\ IF ~hasGeolocation
       THEN /\ trackingState' = STOPPED
            /\ UNCHANGED <<watchId, watchVars, pendingInitial>>
       ELSE /\ trackingState' = RUNNING
            /\ pendingInitial' = TRUE
            /\ WatchPosition("start")
    /\ UNCHANGED <<isSimulating, currentPosition, currentHeading, savedRuns,
                   simulationIntervalId, lastGPSPoint, simVars, now,
                   hasGeolocation, storage>>

\* handleStartTracking
handleStartTracking ==
    /\ path' = <<>>
    /\ capturedAreas' = <<>>
    /\ distance' = DistanceEffect(<<>>)
    /\ startTime' = now
    /\ pauseStartTime' = Null
    /\ totalPauseTime' = 0
    /\ pauseCount' = 0
    /\ currentRunTime' = 0
    /\ lastGPSPoint' = NoGPSPoint
    /\ IF ~hasGeolocation
       THEN /\ trackingState' = STOPPED
            /\ UNCHANGED <<watchId, watchVars, pendingInitial>>
       ELSE /\ trackingState' = RUNNING
            /\ pendingInitial' = TRUE
            /\ WatchPosition("start")
    /\ UNCHANGED <<isSimulating, currentPosition, currentHeading, savedRuns,
                   simulationIntervalId, simVars, now, hasGeolocation, storage>>

\* StopRunData taking the total time in milliseconds
StopRunDataMillis ==
    LET totalRunTime == now - startTime
        activeDuration == totalRunTime - totalPauseTime
    IN [id |-> <<"run", now>>,
        date |-> now,
        path |-> path,
        distance |-> distance,
        duration |-> activeDuration,
        totalTime |-> totalRunTime,
        pauseCount |-> pauseCount,
        pauseDuration |-> totalPauseTime,
        capturedAreas |-> capturedAreas]

\* the SavedRun handleStopTracking assembles
StopRunData ==
    LET totalRunTime == (now - startTime) \div 1000
        activeDuration == totalRunTime - totalPauseTime
    IN [id |-> <<"run", now>>,
        date |-> now,
        path |-> path,
        distance |-> distance,
        duration |-> activeDuration,
        totalTime |-> totalRunTime,
        pauseCount |-> pauseCount,
        pauseDuration |-> totalPauseTime,
        capturedAreas |-> capturedAreas]

\* handleStopTracking saving the run of a session without a path
handleStopTrackingSavesEmpty(ok) ==
    /\ trackingState' = STOPPED
    /\ ClearWatchIfSet
    /\ lastGPSPoint' = NoGPSPoint
    /\ currentRunTime' = 0
    /\ capturedAreas' = CheckForTerritoryCapture(path, capturedAreas)
    /\ IF Truthy(startTime)
       THEN SaveRunToLocalStorage(StopRunData, savedRuns, ok)
       ELSE UNCHANGED <<storage, savedRuns>>
    /\ UNCHANGED <<isSimulating, path, currentPosition, currentHeading, distance,
                   startTime, pauseStartTime, totalPauseTime, pauseCount,
                   simulationIntervalId, simVars, now, hasGeolocation,
                   pendingInitial>>

\* handleStopTracking; ok: the storage write succeeds
handleStopTracking(ok) ==
    /\ trackingState' = STOPPED
    /\ ClearWatchIfSet
    /\ lastGPSPoint' = NoGPSPoint
    /\ currentRunTime' = 0
    /\ capturedAreas' = CheckForTerritoryCapture(path, capturedAreas)
    /\ IF Truthy(startTime) /\ Len(path) > 0
       THEN SaveRunToLocalStorage(StopRunData, savedRuns, ok)
       ELSE UNCHANGED <<storage, savedRuns>>
    /\ UNCHANGED <<isSimulating, path, currentPosition, currentHeading, distance,
                   startTime, pauseStartTime, totalPauseTime, pauseCount,
                   simulationIntervalId, simVars, now, hasGeolocation,
                   pendingInitial>>

\* handlePauseTracking marking the session as paused instead of counting
handlePauseTrackingCountsOnce ==
    /\ trackingState' = PAUSED
    /\ pauseStartTime' = now
    /\ pauseCount' = 1
    /\ ClearWatchIfSet
    /\ UNCHANGED <<isSimulating, path, currentPosition, currentHeading,
                   capturedAreas, distance, startTime, totalPauseTime,
                   currentRunTime, savedRuns, simulationIntervalId, lastGPSPoint,
                   simVars, now, hasGeolocation, pendingInitial, storage>>

\* handlePauseTracking
handlePauseTracking ==
    /\ trackingState' = PAUSED
    /\ pauseStartTime' = now
    /\ pauseCount' = pauseCount + 1
    /\ ClearWatchIfSet
    /\ UNCHANGED <<isSimulating, path, currentPosition, currentHeading,
                   capturedAreas, distance, startTime, totalPauseTime,
                   currentRunTime, savedRuns, simulationIntervalId, lastGPSPoint,
                   simVars, now, hasGeolocation, pendingInitial, storage>>

\* handleResumeTracking storing the last pause instead of adding it
handleResumeTrackingLastPause ==
    /\ IF Truthy(pauseStartTime)
       THEN /\ totalPauseTime' = (now - pauseStartTime) \div 1000
            /\ pauseStartTime' = Null
       ELSE UNCHANGED <<totalPauseTime, pauseStartTime>>
    /\ IF ~hasGeolocation
       THEN /\ trackingState' = STOPPED
            /\ UNCHANGED <<watchId, watchVars>>
       ELSE /\ trackingState' = RUNNING
            /\ WatchPosition("resume")
    /\ UNCHANGED <<isSimulating, path, currentPosition, currentHeading,
                   capturedAreas, distance, startTime, pauseCount, currentRunTime,
                   savedRuns, simulationIntervalId, lastGPSPoint, simVars, now,
                   hasGeolocation, pendingInitial, storage>>

\* handleResumeTracking resetting the path as handleStartTracking does
handleResumeTrackingClearsPath ==
    /\ IF Truthy(pauseStartTime)
       THEN /\ totalPauseTime' = totalPauseTime + ((now - pauseStartTime) \div 1000)
            /\ pauseStartTime' = Null
       ELSE UNCHANGED <<totalPauseTime, pauseStartTime>>
    /\ IF ~hasGeolocation
       THEN /\ trackingState' = STOPPED
            /\ UNCHANGED <<watchId, watchVars>>
       ELSE /\ trackingState' = RUNNING
            /\ WatchPosition("resume")
    /\ path' = <<>>
    /\ distance' = 0
    /\ UNCHANGED <<isSimulating, currentPosition, currentHeading,
                   capturedAreas, startTime, pauseCount, currentRunTime,
                   savedRuns, simulationIntervalId, lastGPSPoint, simVars, now,
                   hasGeolocation, pendingInitial, storage>>

\* handleResumeTracking dropping the last accepted sample, so that the first
\* sample after the pause is accepted unfiltered
handleResumeTrackingClearsBaseline ==
    /\ IF Truthy(pauseStartTime)
       THEN /\ totalPauseTime' = totalPauseTime + ((now - pauseStartTime) \div 1000)
            /\ pauseStartTime' = Null
       ELSE UNCHANGED <<totalPauseTime, pauseStartTime>>
    /\ IF ~hasGeolocation
       THEN /\ trackingState' = STOPPED
            /\ UNCHANGED <<watchId, watchVars>>
       ELSE /\ trackingState' = RUNNING
            /\ WatchPosition("resume")
    /\ lastGPSPoint' = NoGPSPoint
    /\ UNCHANGED <<isSimulating, path, currentPosition, currentHeading,
                   capturedAreas, distance, startTime, pauseCount, currentRunTime,
                   savedRuns, simulationIntervalId, simVars, now,
                   hasGeolocation, pendingInitial, storage>>

\* handleResumeTracking
handleResumeTracking ==
    /\ IF Truthy(pauseStartTime)
       THEN /\ totalPauseTime' = totalPauseTime + ((now - pauseStartTime) \div 1000)
            /\ pauseStartTime' = Null
       ELSE UNCHANGED <<totalPauseTime, pauseStartTime>>
    /\ IF ~hasGeolocation
       THEN /\ trackingState' = STOPPED
            /\ UNCHANGED <<watchId, watchVars>>
       ELSE /\ trackingState' = RUNNING
            /\ WatchPosition("resume")
    /\ UNCHANGED <<isSimulating, path, currentPosition, currentHeading,
                   capturedAreas, distance, startTime, pauseCount, currentRunTime,
                   savedRuns, simulationIntervalId, lastGPSPoint, simVars, now,
                   hasGeolocation, pendingInitial, storage>>

\* handleSimulateRun keeping the captured areas of the previous session
handleSimulateRunKeepsAreas ==
    /\ isSimulating' = TRUE
    /\ path' = <<>>
    /\ distance' = DistanceEffect(<<>>)
    /\ startTime' = now
    /\ currentPosition' = MOCK_RUN_PATH[1]
    /\ simStep' = 0
    /\ simClosure' = [startTime |-> startTime, distance |-> distance,
                      capturedAreas |-> capturedAreas, savedRuns |-> savedRuns]
    /\ simulationIntervalId' = 1
    /\ simTimerActive' = TRUE
    /\ UNCHANGED <<trackingState, currentHeading, capturedAreas, pauseStartTime,
                   totalPauseTime, pauseCount, currentRunTime, savedRuns, watchId,
                   lastGPSPoint, watchVars, now, hasGeolocation, pendingInitial,
                   storage>>

\* handleSimulateRun
handleSimulateRun ==
    /\ isSimulating' = TRUE
    /\ path' = <<>>
    /\ capturedAreas' = <<>>
    /\ distance' = DistanceEffect(<<>>)
    /\ startTime' = now
    /\ currentPosition' = MOCK_RUN_PATH[1]
    /\ simStep' = 0
    /\ simClosure' = [startTime |-> startTime, distance |-> distance,
                      capturedAreas |-> capturedAreas, savedRuns |-> savedRuns]
    /\ simulationIntervalId' = 1
    /\ simTimerActive' = TRUE
    /\ UNCHANGED <<trackingState, currentHeading, pauseStartTime, totalPauseTime,
                   pauseCount, currentRunTime, savedRuns, watchId, lastGPSPoint,
                   watchVars, now, hasGeolocation, pendingInitial, storage>>

\* ------------------------------------------- position-source callbacks

\* if (accuracy > MIN_ACCURACY) return, start subscription
StartTooInaccurate(accuracy) == accuracy > MIN_ACCURACY

\* if (distance < MIN_DISTANCE) return, start subscription
StartTooClose(d) == d < MIN_DISTANCE

\* speed = timeDiff > 0 ? distance / timeDiff : 0; if (speed > MAX_SPEED) return,
\* start subscription; timeDiffMs = timestamp - lastGPSPoint.current.timestamp
StartTooFast(d, timeDiffMs) ==
    IF timeDiffMs > 0 THEN d * 1000 > MAX_SPEED * timeDiffMs ELSE 0 > MAX_SPEED

\* the sample passes the filter of the start subscription
StartFilterPasses(point, accuracy) ==
    /\ ~StartTooInaccurate(accuracy)
    /\ \/ lastGPSPoint = NoGPSPoint
       \/ LET d == TurfDistance(<<lastGPSPoint.lat, lastGPSPoint.lng>>, point)
          IN /\ ~StartTooClose(d)
             /\ ~StartTooFast(d, now - lastGPSPoint.timestamp)

\* heading = bearing < 0 ? bearing + 360 : bearing
Heading(bearing) == IF bearing < 0 THEN bearing + 360 ELSE bearing

\* StartWatchSuccess moving the position marker before it filters the sample
StartWatchSuccessMovesMarker(point, accuracy) ==
    IF StartFilterPasses(point, accuracy)
    THEN /\ currentHeading' =
                IF lastGPSPoint # NoGPSPoint
                THEN Heading(TurfBearing(<<lastGPSPoint.lat, lastGPSPoint.lng>>, point))
                ELSE currentHeading
         /\ lastGPSPoint' = [lat |-> point[1], lng |-> point[2],
                             timestamp |-> now, accuracy |-> accuracy]
         /\ currentPosition' = point
         /\ path' = Append(path, point)
         /\ distance' = DistanceEffect(Append(path, point))
    ELSE /\ currentPosition' = point
         /\ UNCHANGED <<currentHeading, lastGPSPoint, path, distance>>

\* success callback of the watchPosition of handleStartTracking
StartWatchSuccess(point, accuracy) ==
    IF StartFilterPasses(point, accuracy)
    THEN /\ currentHeading' =
                IF lastGPSPoint # NoGPSPoint
                THEN Heading(TurfBearing(<<lastGPSPoint.lat, lastGPSPoint.lng>>, point))
                ELSE currentHeading
         /\ lastGPSPoint' = [lat |-> point[1], lng |-> point[2],
                             timestamp |-> now, accuracy |-> accuracy]
         /\ currentPosition' = point
         /\ path' = Append(path, point)
         /\ distance' = DistanceEffect(Append(path, point))
    ELSE UNCHANGED <<currentHeading, lastGPSPoint, currentPosition, path, distance>>

\* if (accuracy > MIN_ACCURACY) return, resume subscription
ResumeTooInaccurate(accuracy) == accuracy > MIN_ACCURACY

\* ResumeTooClose rejecting a displacement of exactly MIN_DISTANCE
ResumeTooCloseInclusive(d) == d <= MIN_DISTANCE

\* if (distance < MIN_DISTANCE) return, resume subscription
ResumeTooClose(d) == d < MIN_DISTANCE

\* speed = timeDiff > 0 ? distance / timeDiff : 0; if (speed > MAX_SPEED) return,
\* resume subscription
ResumeTooFast(d, timeDiffMs) ==
    IF timeDiffMs > 0 THEN d * 1000 > MAX_SPEED * timeDiffMs ELSE 0 > MAX_SPEED

\* the sample passes the filter of the resume subscription
ResumeFilterPasses(point, accuracy) ==
    /\ ~ResumeTooInaccurate(accuracy)
    /\ \/ lastGPSPoint = NoGPSPoint
       \/ LET d == TurfDistance(<<lastGPSPoint.lat, lastGPSPoint.lng>>, point)
          IN /\ ~ResumeTooClose(d)
             /\ ~ResumeTooFast(d, now - lastGPSPoint.timestamp)

\* success callback of the watchPosition of handleResumeTracking
ResumeWatchSuccess(point, accuracy) ==
    IF ResumeFilterPasses(point, accuracy)
    THEN /\ lastGPSPoint' = [lat |-> point[1], lng |-> point[2],
                             timestamp |-> now, accuracy |-> accuracy]
         /\ currentPosition' = point
         /\ path' = Append(path, point)
         /\ distance' = DistanceEffect(Append(path, point))
         /\ UNCHANGED currentHeading
    ELSE UNCHANGED <<currentHeading, lastGPSPoint, currentPosition, path, distance>>

\* StartWatchError reporting the error without ending the session
StartWatchErrorIgnored == UNCHANGED trackingState

\* error callback of the watchPosition of handleStartTracking
StartWatchError == trackingState' = STOPPED

\* error callback of the watchPosition of handleResumeTracking
ResumeWatchError == trackingState' = STOPPED

\* success callback of getCurrentPosition in handleStartTracking
InitialPositionSuccess(point) == currentPosition' = point

\* ------------------------------------------------------ timer callbacks

\* the SavedRun the simulation interval callback assembles
SimulationRunData ==
    LET duration == (now - simClosure.startTime) \div 1000
    IN [id |-> <<"simulation", now>>,
        date |-> now,
        path |-> MOCK_RUN_PATH,
        distance |-> simClosure.distance,
        duration |-> duration,
        totalTime |-> duration,
        pauseCount |-> 0,
        pauseDuration |-> 0,
        capturedAreas |-> simClosure.capturedAreas]

\* interval callback of handleSimulateRun that completes the run without
\* cancelling its interval
SimulationIntervalKeepsTimer(ok) ==
    IF simStep >= Len(MOCK_RUN_PATH)
    THEN /\ isSimulating' = FALSE
         /\ capturedAreas' = CheckForTerritoryCapture(MOCK_RUN_PATH, capturedAreas)
         /\ IF Truthy(simClosure.startTime)
            THEN SaveRunToLocalStorage(SimulationRunData, simClosure.savedRuns, ok)
            ELSE UNCHANGED <<storage, savedRuns>>
         /\ UNCHANGED <<currentPosition, path, distance, simTimerActive, simStep,
                        simClosure>>
    ELSE /\ currentPosition' = MOCK_RUN_PATH[simStep + 1]
         /\ path' = Append(path, MOCK_RUN_PATH[simStep + 1])
         /\ distance' = DistanceEffect(Append(path, MOCK_RUN_PATH[simStep + 1]))
         /\ simStep' = simStep + 1
         /\ UNCHANGED <<simTimerActive, isSimulating, capturedAreas, storage,
                        savedRuns, simClosure>>

\* interval callback of handleSimulateRun; ok: the storage write succeeds.
\* Once the interval is cleared the callback is never invoked again: its
\* `step` and its closure are dropped.
SimulationInterval(ok) ==
    IF simStep >= Len(MOCK_RUN_PATH)
    THEN /\ IF Truthy(simulationIntervalId)
            THEN /\ simTimerActive' = FALSE
                 /\ simStep' = 0
                 /\ simClosure' = NoClosure
            ELSE UNCHANGED <<simTimerActive, simStep, simClosure>>
         /\ isSimulating' = FALSE
         /\ capturedAreas' = CheckForTerritoryCapture(MOCK_RUN_PATH, capturedAreas)
         /\ IF Truthy(simClosure.startTime)
            THEN SaveRunToLocalStorage(SimulationRunData, simClosure.savedRuns, ok)
            ELSE UNCHANGED <<storage, savedRuns>>
         /\ UNCHANGED <<currentPosition, path, distance>>
    ELSE /\ currentPosition' = MOCK_RUN_PATH[simStep + 1]
         /\ path' = Append(path, MOCK_RUN_PATH[simStep + 1])
         /\ distance' = DistanceEffect(Append(path, MOCK_RUN_PATH[simStep + 1]))
         /\ simStep' = simStep + 1
         /\ UNCHANGED <<simTimerActive, isSimulating, capturedAreas, storage,
                        savedRuns, simClosure>>

\* interval callback of the real-time timer effect
RunTimerInterval == currentRunTime' = now - startTime - totalPauseTime

\* the real-time timer effect keeping its interval whatever the tracking state
RunTimerScheduledInAnyState == Truthy(startTime)

\* the real-time timer effect has an interval scheduled
RunTimerScheduled == trackingState = RUNNING /\ Truthy(startTime)

\* -------------------------------------------------- the rendered buttons

\* {trackingState === STOPPED && !isSimulating && <button onClick={handleStartTracking}>}
StartButtonShown == trackingState = STOPPED /\ ~isSimulating

\* {trackingState === RUNNING && <button onClick={handlePauseTracking}>}
PauseButtonShown == trackingState = RUNNING

\* {trackingState === PAUSED && <button onClick={handleResumeTracking}>}
ResumeButtonShown == trackingState = PAUSED

\* <button onClick={handleStopTracking}> of the RUNNING and of the PAUSED block
StopButtonShown == trackingState = RUNNING \/ trackingState = PAUSED

\* {trackingState === STOPPED && <button onClick={handleSimulateRun}>}
SimulateButtonShown == trackingState = STOPPED

\* ------------------------------------------------------------ the steps
\* A step is one handler or callback run to completion.  The user steps come
\* in two forms: Click..., the handler behind its rendered button, and
\* Call..., the handler invoked whatever is rendered.

ClickStart(maxWatches, maxRuns) ==
    /\ StartButtonShown
    /\ Len(watchKind) < maxWatches /\ Len(savedRuns) < maxRuns
    /\ handleStartTracking
    /\ last' = Did("start")

ClickPause(maxPauses) ==
    /\ PauseButtonShown
    /\ pauseCount < maxPauses
    /\ handlePauseTracking
    /\ last' = Did("pause")

ClickResume(maxWatches) ==
    /\ ResumeButtonShown
    /\ Len(watchKind) < maxWatches
    /\ handleResumeTracking
    /\ last' = Did("resume")

ClickStop ==
    /\ StopButtonShown
    /\ \E ok \in BOOLEAN : handleStopTracking(ok)
    /\ last' = Did("stop")

ClickSimulate(maxRuns) ==
    /\ SimulateButtonShown
    /\ Len(savedRuns) < maxRuns
    /\ handleSimulateRun
    /\ last' = Did("simulate")

\* the mount effect that loads the saved runs; it runs once, before any event
Mounted == last.op # "mount"

MountEffect ==
    /\ ~Mounted
    /\ \E throws \in BOOLEAN :
          /\ savedRuns' = LoadSavedRuns(storage, throws)
          /\ last' = Did(IF throws THEN "readthrows" ELSE "load")
    /\ UNCHANGED <<trackingState, isSimulating, path, currentPosition,
                   currentHeading, capturedAreas, distance, startTime,
                   pauseStartTime, totalPauseTime, pauseCount, currentRunTime,
                   refVars, watchVars, simVars, now, hasGeolocation,
                   pendingInitial, storage>>

CallStart(maxWatches, maxRuns) ==
    /\ Len(watchKind) < maxWatches /\ Len(savedRuns) < maxRuns
    /\ handleStartTracking
    /\ last' = Did("start")

CallPause(maxPauses) ==
    /\ pauseCount < maxPauses
    /\ handlePauseTracking
    /\ last' = Did("pause")

CallResume(maxWatches) ==
    /\ Len(watchKind) < maxWatches
    /\ handleResumeTracking
    /\ last' = Did("resume")

CallStop(maxRuns) ==
    /\ Len(savedRuns) < maxRuns
    /\ \E ok \in BOOLEAN : handleStopTracking(ok)
    /\ last' = Did("stop")

\* the subscriptions whose callbacks the position source may still invoke
Delivering == openWatches \cup staleWatches

\* the position source invokes the success callback of subscription w
PositionSample(points, accuracies, maxPathLen) ==
    \E w \in Delivering, point \in points, accuracy \in accuracies :
        /\ Len(path) < maxPathLen
        /\ IF watchKind[w] = "start"
           THEN StartWatchSuccess(point, accuracy)
           ELSE ResumeWatchSuccess(point, accuracy)
        /\ staleWatches' = staleWatches \ {w}
        /\ last' = Op("sample", w, w \in staleWatches,
                      [point |-> point, accuracy |-> accuracy])
        /\ UNCHANGED <<trackingState, isSimulating, capturedAreas, startTime,
                       pauseStartTime, totalPauseTime, pauseCount, currentRunTime,
                       savedRuns, watchId, simulationIntervalId, watchKind,
                       openWatches, simVars, now, hasGeolocation, pendingInitial,
                       storage>>

\* PositionError with an error callback that archives the session as a stop does
PositionErrorArchives ==
    \E w \in Delivering, keeps \in BOOLEAN :
        /\ IF watchKind[w] = "start" THEN StartWatchError ELSE ResumeWatchError
        /\ openWatches' = IF keeps THEN openWatches ELSE openWatches \ {w}
        /\ staleWatches' = staleWatches \ {w}
        /\ last' = Op("error", w, w \in staleWatches, NoSample)
        /\ IF Truthy(startTime) /\ Len(path) > 0
           THEN SaveRunToLocalStorage(StopRunData, savedRuns, TRUE)
           ELSE UNCHANGED <<storage, savedRuns>>
        /\ UNCHANGED <<isSimulating, path, currentPosition, currentHeading,
                       capturedAreas, distance, startTime, pauseStartTime,
                       totalPauseTime, pauseCount, currentRunTime,
                       refVars, watchKind, simVars, now, hasGeolocation,
                       pendingInitial>>

\* the position source invokes the error callback of subscription w;
\* keeps: the source goes on serving the subscription after the error
PositionError ==
    \E w \in Delivering, keeps \in BOOLEAN :
        /\ IF watchKind[w] = "start" THEN StartWatchError ELSE ResumeWatchError
        /\ openWatches' = IF keeps THEN openWatches ELSE openWatches \ {w}
        /\ staleWatches' = staleWatches \ {w}
        /\ last' = Op("error", w, w \in staleWatches, NoSample)
        /\ UNCHANGED <<isSimulating, path, currentPosition, currentHeading,
                       capturedAreas, distance, startTime, pauseStartTime,
                       totalPauseTime, pauseCount, currentRunTime, savedRuns,
                       refVars, watchKind, simVars, now, hasGeolocation,
                       pendingInitial, storage>>

\* the position source answers the getCurrentPosition request
InitialPosition(points) ==
    /\ pendingInitial
    /\ \E point \in points : InitialPositionSuccess(point)
    /\ pendingInitial' = FALSE
    /\ last' = Did("initial")
    /\ UNCHANGED <<trackingState, isSimulating, path, currentHeading,
                   capturedAreas, distance, startTime, pauseStartTime,
                   totalPauseTime, pauseCount, currentRunTime, savedRuns,
                   refVars, watchVars, simVars, now, hasGeolocation, storage>>

\* the simulation interval fires
SimulationTick ==
    /\ simTimerActive
    /\ \E ok \in BOOLEAN : SimulationInterval(ok)
    /\ last' = Did("simtick")
    /\ UNCHANGED <<trackingState, currentHeading, startTime, pauseStartTime,
                   totalPauseTime, pauseCount, currentRunTime, refVars, watchVars,
                   now, hasGeolocation, pendingInitial>>

\* the interval of the real-time timer effect fires
RunTimerTick ==
    /\ RunTimerScheduled
    /\ RunTimerInterval
    /\ last' = Did("timer")
    /\ UNCHANGED <<trackingState, isSimulating, path, currentPosition,
                   currentHeading, capturedAreas, distance, startTime,
                   pauseStartTime, totalPauseTime, pauseCount, savedRuns,
                   refVars, watchVars, simVars, now, hasGeolocation,
                   pendingInitial, storage>>

\* time passes
ClockTick(steps, maxTime) ==
    /\ \E d \in steps : now + d <= maxTime /\ now' = now + d
    /\ last' = Did("clock")
    /\ UNCHANGED <<stateVars, refVars, watchVars, simVars, hasGeolocation,
                   pendingInitial, storage>>

\* ---------------------------------------------------- the specifications

\* Live tracking driven through the rendered buttons.
Next ==
    \/ ClickStart(MaxWatches, MaxRuns)
    \/ ClickPause(MaxPauses)
    \/ ClickResume(MaxWatches)
    \/ ClickStop
    \/ PositionSample(Points, Accuracies, MaxPathLen)
    \/ PositionError
    \/ InitialPosition(Points)
    \/ RunTimerTick
    \/ ClockTick(TimeSteps, MaxTime)

Spec == Init /\ [][Next]_vars

\* Live tracking and the simulated run driven through the rendered buttons.
\* The answer to getCurrentPosition and the real-time timer are left to Spec:
\* they write currentPosition and currentRunTime, which no handler reads.
NextFull ==
    \/ ClickStart(MaxWatches, MaxRuns)
    \/ ClickPause(MaxPauses)
    \/ ClickResume(MaxWatches)
    \/ ClickStop
    \/ ClickSimulate(MaxRuns)
    \/ PositionSample(FullPoints, FullAccuracies, FullMaxPathLen)
    \/ PositionError
    \/ SimulationTick
    \/ ClockTick(TimeSteps, MaxTime)

SpecFull == Init /\ [][NextFull]_vars

\* The handlers of live tracking invoked in any state, as by another front end.
NextApi ==
    \/ CallStart(MaxWatches, MaxRuns)
    \/ CallPause(MaxPauses)
    \/ CallResume(MaxWatches)
    \/ CallStop(MaxRuns)
    \/ PositionSample(FullPoints, FullAccuracies, FullMaxPathLen)
    \/ PositionError
    \/ ClockTick(TimeSteps, MaxTime)

SpecApi == Init /\ [][NextApi]_vars

\* Live tracking and the simulated run with paths of up to three live points;
\* the position source reports no error and the clock stands still, so that
\* every sample that moves by MIN_DISTANCE is appended.
NextPath ==
    \/ ClickStart(MaxWatches, MaxRuns)
    \/ ClickPause(MaxPauses)
    \/ ClickResume(MaxWatches)
    \/ ClickStop
    \/ ClickSimulate(MaxRuns)
    \/ PositionSample(PathPoints, PathAccuracies, PathMaxLen)
    \/ SimulationTick

SpecPath == Init /\ [][NextPath]_vars

\* The mount with every kind of stored value, then live sessions and
\* simulations that add to the loaded archive.
NextLoad ==
    \/ MountEffect
    \/ Mounted /\ ClickStart(MaxWatches, LoadMaxRuns)
    \/ Mounted /\ ClickStop
    \/ Mounted /\ ClickSimulate(LoadMaxRuns)
    \/ Mounted /\ PositionSample(FullPoints, PathAccuracies, FullMaxPathLen)
    \/ Mounted /\ SimulationTick

SpecLoad == InitMount /\ [][NextLoad]_vars

\* Live sessions and simulations where the interval of a simulation, once
\* set, goes on firing every 500 ms until it is cleared.
NextTimer ==
    \/ ClickStart(MaxWatches, MaxRuns)
    \/ ClickStop
    \/ ClickSimulate(MaxRuns)
    \/ PositionSample(FullPoints, PathAccuracies, FullMaxPathLen)
    \/ SimulationTick

SpecTimer == Init /\ [][NextTimer]_vars /\ WF_vars(SimulationTick)

\* Two runs, live or simulated, and a clock that may or may not advance
\* between two reads of Date.now().
NextArchive ==
    \/ ClickStart(MaxWatches, ArchiveMaxRuns)
    \/ ClickStop
    \/ ClickSimulate(ArchiveMaxRuns)
    \/ PositionSample(FullPoints, PathAccuracies, FullMaxPathLen)
    \/ SimulationTick
    \/ ClockTick(TimeSteps, MaxTime)

SpecArchive == Init /\ [][NextArchive]_vars

\* Live tracking with pauses of several lengths: one position, every sample
\* accurate, so that a session has a path to archive.
NextLedger ==
    \/ ClickStart(LedgerMaxWatches, MaxRuns)
    \/ ClickPause(LedgerMaxPauses)
    \/ ClickResume(LedgerMaxWatches)
    \/ ClickStop
    \/ PositionSample(FullPoints, PathAccuracies, FullMaxPathLen)
    \/ PositionError
    \/ RunTimerTick
    \/ ClockTick(LedgerTimeSteps, LedgerMaxTime)

SpecLedger == Init /\ [][NextLedger]_vars

\* Live tracking and the simulated run with paths whose ends are up to 152 m
\* apart; the clock stands still, so that no sample is too fast.
NextTerritory ==
    \/ ClickStart(MaxWatches, MaxRuns)
    \/ ClickStop
    \/ ClickSimulate(MaxRuns)
    \/ PositionSample(TerritoryPoints, PathAccuracies, TerritoryMaxPathLen)
    \/ SimulationTick

SpecTerritory == Init /\ [][NextTerritory]_vars

\* ------------------------------------------------------------ properties

TrackingStates == {STOPPED, RUNNING, PAUSED}

\* C1: the tracking state starts as Stopped, is always Stopped, Running or
\* Paused, and changes only Stopped->Running by start, Running->Paused by
\* pause, Paused->Running by resume, Running->Stopped or Paused->Stopped by
\* stop, Running->Stopped by a position-source error, or to Stopped by a
\* start that finds no position source.  (Stated for the steps other than
\* the callbacks of a subscription that has been cleared.)
C1_Change ==
    trackingState' # trackingState /\ ~last'.stale =>
        \/ trackingState = STOPPED /\ trackingState' = RUNNING /\ last'.op = "start"
        \/ trackingState = RUNNING /\ trackingState' = PAUSED /\ last'.op = "pause"
        \/ trackingState = PAUSED /\ trackingState' = RUNNING /\ last'.op = "resume"
        \/ trackingState = RUNNING /\ trackingState' = STOPPED /\ last'.op = "stop"
        \/ trackingState = PAUSED /\ trackingState' = STOPPED /\ last'.op = "stop"
        \/ trackingState = RUNNING /\ trackingState' = STOPPED /\ last'.op = "error"
        \/ trackingState' = STOPPED /\ last'.op = "start" /\ ~hasGeolocation

C1_TrackingStateMachine ==
    /\ trackingState = STOPPED
    /\ [](trackingState \in TrackingStates)
    /\ [][C1_Change]_vars

\* C2: whenever the tracking state is Stopped or Paused no live position
\* subscription is open: the watch handle is null and the position source
\* serves no subscription.
C2_NoSubscriptionWhenIdle ==
    trackingState \in {STOPPED, PAUSED} => watchId = Null /\ openWatches = {}

\* C3: a sample delivered by a subscription that pause or stop has already
\* cleared changes neither the path, nor the last accepted sample, nor the
\* current position.
C3_StaleSampleDiscarded ==
    [][last'.op = "sample" /\ last'.stale
         => UNCHANGED <<path, lastGPSPoint, currentPosition>>]_vars

\* C4: at most one of the live position subscription and the simulation
\* timer is active.
C4_OneSourceAtATime == ~(openWatches # {} /\ simTimerActive)

\* C5: pause while Stopped or Paused, resume while Stopped or Running, start
\* while Running or Paused and stop while Stopped leave the tracking state,
\* the pause count, the pause total, the path and the archive unchanged.
C5_Undefined ==
    \/ last'.op = "pause" /\ trackingState \in {STOPPED, PAUSED}
    \/ last'.op = "resume" /\ trackingState \in {STOPPED, RUNNING}
    \/ last'.op = "start" /\ trackingState \in {RUNNING, PAUSED}
    \/ last'.op = "stop" /\ trackingState = STOPPED

C5_UndefinedIsNoOp ==
    [][C5_Undefined => UNCHANGED <<trackingState, pauseCount, totalPauseTime,
                                   path, savedRuns, storage>>]_vars

\* C6: a position-source error delivered while Running moves the tracking
\* state to Stopped in that step, and a subscription is opened only by a
\* start or a resume of the user.
C6_ErrorStops ==
    [][/\ last'.op = "error" /\ trackingState = RUNNING => trackingState' = STOPPED
       /\ watchKind' # watchKind \/ ~(openWatches' \subseteq openWatches)
            => last'.op \in {"start", "resume"}]_vars

C6_Witness ==
    last.op = "error" /\ last.from = RUNNING /\ trackingState = STOPPED

\* the acceptance rule of C7 for a sample delivered in the current state:
\* accuracy not greater than 50 and, if a last accepted sample exists,
\* distance d not less than 2 and either dt <= 0 or d/dt not greater than 25
\* (dt in seconds, the clock in milliseconds)
SampleAccepted(sample) ==
    /\ sample.accuracy <= 50
    /\ lastGPSPoint # NoGPSPoint =>
         LET d == TurfDistance(<<lastGPSPoint.lat, lastGPSPoint.lng>>, sample.point)
             dtMs == now - lastGPSPoint.timestamp
         IN /\ d >= 2
            /\ dtMs <= 0 \/ d * 1000 <= 25 * dtMs

\* C7: in the start and in the resume subscription a sample is accepted
\* (appended to the path) exactly when it satisfies the acceptance rule.
C7_FilterRule ==
    [][last'.op = "sample" => (path' # path <=> SampleAccepted(last'.sample))]_vars

C7_Witness ==
    /\ last.op = "sample"
    /\ watchKind[last.w] = "resume"
    /\ Len(path) = 2
    /\ path[2] = last.sample.point
    /\ lastGPSPoint.timestamp = now

\* C8: a rejected sample changes neither the path, the last accepted sample,
\* the current position, the heading nor the distance; an accepted sample
\* becomes the last accepted sample and the current position and is appended
\* as the last element of the path.
C8_SampleEffect ==
    [][last'.op = "sample" =>
         IF SampleAccepted(last'.sample)
         THEN /\ lastGPSPoint' = [lat |-> last'.sample.point[1],
                                  lng |-> last'.sample.point[2],
                                  timestamp |-> now,
                                  accuracy |-> last'.sample.accuracy]
              /\ currentPosition' = last'.sample.point
              /\ path' = Append(path, last'.sample.point)
         ELSE UNCHANGED <<path, lastGPSPoint, currentPosition, currentHeading,
                          distance>>]_vars

C8_Witness ==
    /\ last.op = "sample"
    /\ last.sample.accuracy > 50
    /\ Len(path) = 1
    /\ currentPosition = path[1]

IsPrefix(s, t) == Len(s) <= Len(t) /\ SubSeq(t, 1, Len(s)) = s

\* C9: the path only grows by appending one point at its end, so every
\* earlier value is a prefix of every later one, across pause and resume; it
\* is emptied only by start or by starting a simulation.
C9_PathGrows ==
    [][\/ IsPrefix(path, path') /\ Len(path') <= Len(path) + 1
       \/ path' = <<>> /\ last'.op \in {"start", "simulate"}]_vars

C9_Witness ==
    /\ last.op = "sample"
    /\ watchKind[last.w] = "resume"
    /\ pauseCount >= 1
    /\ trackingState = RUNNING
    /\ Len(path) = 3
    /\ path[3] = last.sample.point

RECURSIVE SegmentSum(_, _)
\* the sum of the lengths of the segments p[i], p[i+1] for i in 1..n
SegmentSum(p, n) ==
    IF n < 1 THEN 0 ELSE SegmentSum(p, n - 1) + TurfDistance(p[n], p[n + 1])

\* C10: the session distance is the sum of the segment lengths of all
\* consecutive pairs of the current path, and 0 for a path of 0 or 1 points.
C10_DistanceOfPath ==
    /\ distance = SegmentSum(path, Len(path) - 1)
    /\ Len(path) <= 1 => distance = 0

C10_Witness ==
    /\ last.op = "sample"
    /\ Len(path) = 3
    /\ distance = TurfDistance(path[1], path[2]) + TurfDistance(path[2], path[3])
    /\ distance > 0

\* C11: every SavedRun of the archive, of a stopped live session or of a
\* completed simulation, has a distance equal to the sum of the segment
\* lengths of its own saved path.
C11_SavedDistanceOfPath ==
    \A i \in 1..Len(savedRuns) :
        savedRuns[i].distance = SegmentSum(savedRuns[i].path, Len(savedRuns[i].path) - 1)

\* C12: in every reachable state the pause start timestamp is non-null
\* exactly when the tracking state is Paused.
C12_PauseStartIffPaused == pauseStartTime # Null <=> trackingState = PAUSED

\* the run a step has added to the archive
Archived == savedRuns'[Len(savedRuns')]

\* C13: the pause count increases by exactly 1 on every Running->Paused
\* transition, is changed by no other operation except the reset to 0 by
\* start, and the pause count of a SavedRun is the number of pause
\* operations performed in its session.
C13_PauseCount ==
    [][/\ trackingState = RUNNING /\ trackingState' = PAUSED
            => pauseCount' = pauseCount + 1
       /\ pauseCount' # pauseCount
            => \/ last'.op = "pause" /\ pauseCount' = pauseCount + 1
               \/ last'.op = "start" /\ pauseCount' = 0
       /\ last'.op = "stop" /\ Len(savedRuns') = Len(savedRuns) + 1
            => Archived.pauseCount = last'.pauses]_vars

C13_Witness ==
    /\ last.op = "stop"
    /\ last.pauses = 2
    /\ Len(savedRuns) = 1
    /\ savedRuns[1].pauseCount = 2

C15_PauseDurationOfSum ==
    [][last'.op = "stop" /\ trackingState = RUNNING
         /\ Len(savedRuns') = Len(savedRuns) + 1
            => Archived.pauseDuration = last'.pausedMs \div 1000]_vars

\* C16: when stop is invoked while Paused, the open pause interval (stop time
\* minus pause start) is added to the pause total before the totals are
\* computed: the SavedRun's pause duration includes it and its active
\* duration excludes it.
C16_StopFoldsOpenPause ==
    [][last'.op = "stop" /\ trackingState = PAUSED
         /\ Len(savedRuns') = Len(savedRuns) + 1
            => /\ Archived.pauseDuration =
                    (last'.pausedMs + (now - pauseStartTime)) \div 1000
               /\ Archived.duration = Archived.totalTime - Archived.pauseDuration]_vars

\* C17: every SavedRun of a stopped live session has total duration
\* floor((stop time - start time)/1000), active duration = total duration -
\* pause duration, and active duration >= 0.
C17_SavedDurations ==
    [][last'.op = "stop" /\ Len(savedRuns') = Len(savedRuns) + 1
            => /\ Archived.totalTime = (now - startTime) \div 1000
               /\ Archived.duration = Archived.totalTime - Archived.pauseDuration
               /\ Archived.duration >= 0]_vars

C17_Witness ==
    /\ last.op = "stop"
    /\ Len(savedRuns) = 1
    /\ savedRuns[1].pauseCount = 2
    /\ savedRuns[1].totalTime = 2
    /\ savedRuns[1].pauseDuration = 2
    /\ savedRuns[1].duration = 0

\* C18: while Running, a tick of the live timer at time now sets the
\* displayed active time to now - start time - the time spent paused so far,
\* all in milliseconds.
C18_TimerShowsActiveTime ==
    [][last'.op = "timer" /\ trackingState = RUNNING
            => currentRunTime' = now - startTime - last'.pausedMs]_vars

\* territory detection as C19 states it: nothing for a path of 2 or fewer
\* points; for 3 or more points the closed polygon p + [p[0]] exactly when
\* the first and the last point are less than 150 m apart
Detected(p) ==
    IF Len(p) <= 2 THEN <<>>
    ELSE IF TurfDistance(p[1], p[Len(p)]) < 150 THEN <<p \o <<p[1]>>>>
    ELSE <<>>

AllClosed(areas) ==
    \A i \in 1..Len(areas) :
        Len(areas[i]) >= 4 /\ areas[i][1] = areas[i][Len(areas[i])]

\* C20: every captured area, in the session's list and inside every
\* SavedRun, has at least 4 points and its first point equals its last.
C20_AreasClosed ==
    /\ AllClosed(capturedAreas)
    /\ \A i \in 1..Len(savedRuns) : AllClosed(savedRuns[i].capturedAreas)

C20_Witness ==
    /\ Len(capturedAreas) > 0
    /\ Len(savedRuns) > 0
    /\ Len(savedRuns[1].capturedAreas) > 0
    /\ Len(savedRuns[1].capturedAreas[1]) = 4

\* C21: the captured-area list is empty whenever the session is Running or
\* Paused, and it never holds more than one area (in particular after a stop
\* or after a simulation completed).
C21_AreasOnlyAfterFinalize ==
    /\ trackingState \in {RUNNING, PAUSED} => capturedAreas = <<>>
    /\ Len(capturedAreas) <= 1

\* a stop closed the loop of a live session and left one area
C21_Witness ==
    /\ last.op = "stop"
    /\ Len(path) > 2
    /\ Len(capturedAreas) = 1

\* C22: a stop from Running or Paused of a session with at least one
\* accepted sample appends exactly one SavedRun to the archive, and the path
\* of that run is the path the session accumulated.
C22_StopSavesSession ==
    [][(last'.op = "stop" /\ trackingState \in {RUNNING, PAUSED} /\ Len(path) > 0)
       => /\ Len(savedRuns') = Len(savedRuns) + 1
          /\ SubSeq(savedRuns', 1, Len(savedRuns)) = savedRuns
          /\ Archived.path = path]_vars

\* C23: the captured areas saved by the stop of a live session are what the
\* territory detection yields on the saved path: one closed polygon for a
\* path of more than 2 points whose ends are closer than the threshold,
\* nothing otherwise.
C23_SavedAreasOfPath ==
    [][(last'.op = "stop" /\ Len(savedRuns') = Len(savedRuns) + 1)
       => Archived.capturedAreas = CheckForTerritoryCapture(Archived.path, <<>>)]_vars

\* C24: the stop of a live session in which no sample was accepted (the path
\* is empty) saves nothing: the in-memory archive and the persisted
\* collection are unchanged.
C24_EmptySessionNotSaved ==
    [][(last'.op = "stop" /\ path = <<>>) => UNCHANGED <<savedRuns, storage>>]_vars

\* a session was started and stopped without an accepted sample
C24_Witness ==
    /\ last.op = "stop"
    /\ last.from \in {RUNNING, PAUSED}
    /\ Truthy(startTime)
    /\ path = <<>>
    /\ savedRuns = <<>>

\* C25: after a stop all session-scoped state is reset: the path is empty,
\* the distance is 0, the captured-area list is empty, and the start time,
\* the pause start, the pause total and the pause count are cleared.
C25_StopResetsSession ==
    [][last'.op = "stop"
       => /\ path' = <<>>
          /\ distance' = 0
          /\ capturedAreas' = <<>>
          /\ startTime' = Null
          /\ pauseStartTime' = Null
          /\ totalPauseTime' = 0
          /\ pauseCount' = 0]_vars

\* C26: a simulation of the fixed path that runs to completion appends
\* exactly one SavedRun, and that run has exactly one captured area, whatever
\* happened before it (also when it is the first action after load).
C26_SimulationSaved ==
    [][(last'.op = "simtick" /\ isSimulating /\ ~isSimulating')
       => /\ Len(savedRuns') = Len(savedRuns) + 1
          /\ SubSeq(savedRuns', 1, Len(savedRuns)) = savedRuns
          /\ Len(Archived.capturedAreas) = 1]_vars

\* C27: starting a simulation while a simulation or a live session is
\* active, and starting a live session while a simulation is active, is
\* rejected: the run in progress keeps its path, its step position and its
\* start time.
C27_OneRunAtATime ==
    [][(\/ last'.op = "simulate" /\ (isSimulating \/ trackingState # STOPPED)
        \/ last'.op = "start" /\ isSimulating)
       => UNCHANGED <<path, simStep, startTime>>]_vars

\* C28: when the storage write fails while a run is appended (the run was
\* handed to the archive and the persisted collection did not change), the
\* run is still added to the in-memory list, after the runs that were
\* already in it.
C28_FailedWriteKeepsRun ==
    [][(last'.op = "stop" /\ Truthy(startTime) /\ Len(path) > 0 /\ storage' = storage)
       => /\ Len(savedRuns') = Len(savedRuns) + 1
          /\ SubSeq(savedRuns', 1, Len(savedRuns)) = savedRuns
          /\ Archived.path = path]_vars

\* C29: when the load of the archive fails (the read throws, or the stored
\* text cannot be parsed) the in-memory collection is left empty, and so it
\* is when the key is absent; a load never populates it with part of what
\* is stored.
C29_FailedLoadLeavesEmpty ==
    [][last.op = "mount"
       => /\ (last'.op = "readthrows" \/ storage \in {<<>>, Unparseable}) => savedRuns' = <<>>
          /\ savedRuns' \in {<<>>, storage}]_vars

\* the mount found a text that is not JSON and left the archive empty
C29_Witness ==
    /\ last.op = "load"
    /\ storage = Unparseable
    /\ savedRuns = <<>>

\* C30: the archive is append-only and keeps insertion order: every step
\* leaves the in-memory run collection, and the persisted run collection, a
\* prefix of its new value (a stored text that is not a run collection is
\* not compared).
C30_ArchiveAppendOnly ==
    [][/\ IsPrefix(savedRuns, savedRuns')
       /\ storage # Unparseable => IsPrefix(storage, storage')]_vars

\* C31: the SavedRuns of the archive have pairwise distinct ids.
C31_DistinctIds ==
    \A i, j \in 1..Len(savedRuns) : i # j => savedRuns[i].id # savedRuns[j].id

StartResets ==
    /\ path' = <<>>
    /\ capturedAreas' = <<>>
    /\ distance' = 0
    /\ startTime' = now
    /\ totalPauseTime' = 0
    /\ pauseCount' = 0
    /\ pauseStartTime' = Null
    /\ lastGPSPoint' = NoGPSPoint

\* the step opens exactly one position subscription and stores its handle
OpensOneSubscription ==
    /\ Cardinality(openWatches' \ openWatches) = 1
    /\ openWatches \subseteq openWatches'
    /\ openWatches' \ openWatches = {watchId'}

\* C33 as stated: a start from Stopped resets the session state and opens
\* exactly one position subscription.
C33_StartResetsAndSubscribes ==
    [][(last'.op = "start" /\ trackingState = STOPPED)
       => StartResets /\ OpensOneSubscription]_vars

\* C33 amended: a start from Stopped resets the session state; where the
\* browser has geolocation it opens exactly one position subscription and
\* the session is Running, where it has none it opens no subscription and
\* the session stays Stopped.
C33_StartResetsAndSubscribesIfSupported ==
    [][(last'.op = "start" /\ trackingState = STOPPED)
       => /\ StartResets
          /\ IF hasGeolocation
             THEN OpensOneSubscription /\ trackingState' = RUNNING
             ELSE UNCHANGED <<openWatches, watchId>> /\ trackingState' = STOPPED]_vars

\* the second session was started a second after the first one began
C33_Witness ==
    /\ last.op = "start"
    /\ hasGeolocation
    /\ Len(watchKind) = 2
    /\ watchId = 2
    /\ startTime = now
    /\ now > Epoch
    /\ path = <<>>

\* C34: after every accepted sample that has a previously accepted sample,
\* in the start and in the resume subscription, the current heading is the
\* bearing from the previous accepted sample to the new one, brought into
\* the range 0 to 360 degrees.
C34_HeadingOfLastTwo ==
    [][(last'.op = "sample" /\ SampleAccepted(last'.sample) /\ lastGPSPoint # NoGPSPoint)
       => /\ currentHeading' =
               Heading(TurfBearing(<<lastGPSPoint.lat, lastGPSPoint.lng>>, last'.sample.point))
          /\ currentHeading' >= 0 /\ currentHeading' < 360]_vars

\* C35: while a simulation runs, after k ticks the path is the first k
\* points of the fixed path, in their order, and no step changes the
\* position subscription handle or the last accepted sample of the filter
\* (a callback that was queued before its subscription was cancelled is not
\* counted).
C35_SimulationFeedsInOrder ==
    [][~last'.stale
       => /\ (isSimulating' /\ (isSimulating => path = SubSeq(MOCK_RUN_PATH, 1, simStep)))
               => path' = SubSeq(MOCK_RUN_PATH, 1, simStep')
          /\ isSimulating => UNCHANGED <<watchId, lastGPSPoint>>]_vars

\* C36: the SavedRun of a completed simulation has total time and active
\* duration both equal to the whole seconds between the start of that
\* simulation and its completion, pause count 0 and pause duration 0.
C36_SimulationDuration ==
    [][(last'.op = "simtick" /\ isSimulating /\ ~isSimulating'
        /\ Len(savedRuns') = Len(savedRuns) + 1)
       => /\ Archived.duration = (now - startTime) \div 1000
          /\ Archived.totalTime = Archived.duration
          /\ Archived.pauseCount = 0
          /\ Archived.pauseDuration = 0]_vars

\* C37: the live timer ticks only while the tracking state is Running, a
\* tick changes nothing but the displayed active time, and the durations a
\* stop saves are computed from the clock, the start time and the pause
\* total alone, so that they are the same whatever ticks were delivered.
C37_TicksOnlyDisplay ==
    [][/\ last'.op = "timer"
            => /\ trackingState = RUNNING
               /\ UNCHANGED <<trackingState, isSimulating, path, currentPosition,
                              currentHeading, capturedAreas, distance, startTime,
                              pauseStartTime, totalPauseTime, pauseCount, savedRuns,
                              refVars, watchVars, simVars, now, hasGeolocation,
                              pendingInitial, storage>>
       /\ (last'.op = "stop" /\ Len(savedRuns') = Len(savedRuns) + 1)
            => /\ Archived.totalTime = (now - startTime) \div 1000
               /\ Archived.duration = Archived.totalTime - totalPauseTime
               /\ Archived.pauseDuration = totalPauseTime]_vars

\* a tick after a pause of a second and a half showed a time on the display
C37_Witness ==
    /\ last.op = "timer"
    /\ trackingState = RUNNING
    /\ currentRunTime > 0
    /\ last.pausedMs = 1500
    /\ Len(path) = 1

\* C38: at most one position subscription is open at any time, and an open
\* subscription is the one the stored watch handle identifies.
C38_OneSubscription ==
    /\ Cardinality(openWatches) <= 1
    /\ openWatches # {} => openWatches = {watchId}

\* C39: a simulation whose timer fires eventually completes unless it is
\* restarted; only an active timer ticks; the tick after the 9 points cancels
\* the timer and clears the simulating flag, after which that timer does not
\* tick again.
C39_SimulationCompletes ==
    /\ (simTimerActive /\ last.op = "simtick") ~> (~isSimulating \/ last.op = "simulate")
    /\ [][last'.op = "simtick"
            => /\ simTimerActive
               /\ simStep >= MOCK_RUN_LENGTH => (~simTimerActive' /\ ~isSimulating')
               /\ simStep < MOCK_RUN_LENGTH => (simTimerActive' /\ simStep' = simStep + 1)]_vars
    /\ [](~simTimerActive => ~ENABLED SimulationTick)

\* the simulation fed its 9 points and its last tick cancelled the timer
C39_Witness ==
    /\ last.op = "simtick"
    /\ ~simTimerActive
    /\ ~isSimulating
    /\ Len(path) = MOCK_RUN_LENGTH
    /\ Len(capturedAreas) = 1

\* C40: a position error changes neither the in-memory archive nor the
\* persisted collection, also when it ends a Running session that has
\* accepted samples: no SavedRun is produced for that session.
C40_ErrorLeavesArchive ==
    [][last'.op = "error" => UNCHANGED <<savedRuns, storage>>]_vars

\* an error ended a Running session with a path, and nothing was archived
C40_Witness ==
    /\ last.op = "error"
    /\ ~last.stale
    /\ last.from = RUNNING
    /\ trackingState = STOPPED
    /\ Len(path) = 2
    /\ savedRuns = <<>>
    /\ storage = <<>>

====
